---- MODULE Spec2Model ----
(***************************************************************************)
(* A model of parks.py: the throttled fetcher (graph_parse), the graph      *)
(* navigation utilities (ensure, has_subj, drill, isa, get_listed_sites),   *)
(* the field extractors (populate_exhibit, populate_item, populate_field,   *)
(* populate_coverage, populate_file, get_topic_article) and the run         *)
(* (main, load_parks, login).                                               *)
(*                                                                          *)
(* Time is counted in ticks, TicksPerSecond ticks to the second.  Text is   *)
(* a sequence of one-character strings, so that endswith, rsplit, replace   *)
(* and re.sub are computed, not assumed.  A graph term is a record          *)
(* [v |-> text, lang |-> tag]: an identifier (rdflib.URIRef) has the tag    *)
(* "uri", a literal its language tag, or "none" when it has none.           *)
(*                                                                          *)
(* The remote graph is the variable web: the document each identifier's    *)
(* GET returns.  Every document holds only triples whose subject is the     *)
(* identifier fetched, so that the objects of a node do not change while a *)
(* loop iterates over them (rdflib leaves the effect of adding triples      *)
(* during an iteration unspecified).                                        *)
(***************************************************************************)
EXTENDS Integers, Sequences, FiniteSets, TLC

VARIABLES
    web,            \* the remote graph: identifier -> the triples its GET returns
    graph,          \* rdflib.Graph(): the set of triples loaded so far
    clock,          \* time.time(), in ticks
    LAST_DOWNLOAD,  \* the module's global
    nfetch,         \* history: identifier -> number of graph.parse calls on it
    ncalls,         \* history: identifier -> number of ensure calls on it
    prevIssue,      \* history: when the fetch before the last was issued
    lastIssue,      \* history: when the last fetch (graph.parse) was issued
    ops,            \* harness: number of calls made so far
    stack,          \* drill: the generator frames, innermost first
    out,            \* drill: the identifiers yielded by the current call
    dcall,          \* drill: the harness's current call and the fetch counts before it
    fin,            \* populate_file: the call's inputs
    files,          \* populate_file: the files dict, key -> <<name, raw_uri>>
    pc,             \* main: where the run is
    exitCode,       \* main: the value returned to sys.exit
    ent,            \* the node populate_exhibit / populate_item is working on
    data,           \* the Field-Set (data / params) under construction
    text,           \* get_topic_article: its local text
    todo,           \* the objects the current for loop has still to visit
    kids,           \* get_listed_sites: the children still to yield
    reqs            \* history: the requests issued, in order, with their outcome

netVars  == <<graph, clock, LAST_DOWNLOAD, nfetch, ncalls, prevIssue, lastIssue>>
navVars  == <<ops, stack, out, dcall>>
fileVars == <<fin, files>>
runVars  == <<pc, exitCode, ent, data, text, todo, kids, reqs>>
vars     == <<web, netVars, navVars, fileVars, runVars>>

----------------------------------------------------------------------------
(* Bounds of the model *)

TicksPerSecond == 4   \* resolution of the clock
MaxGap         == 5   \* longest time, in ticks, between two graph_parse calls
MaxFetches     == 3   \* fetches of one identifier in the throttle harness
MaxOps         == 2   \* ensure / drill calls of the navigation harness
MaxEdges       == 3   \* triples of the remote graph in the navigation harness
MaxPath        == 2   \* length of a drill path
MaxMedia       == 2   \* media-type triples of an image node
MaxKids        == 2   \* children listed on the root

(* Program constants *)

seconds == 1          \* graph_parse's default minimum interval, in seconds

MinInterval == seconds * TicksPerSecond
StartClock  == 2 * MinInterval      \* time.time() at the first call: far from 0

----------------------------------------------------------------------------
(* Text *)

EndsWith(s, suf) ==
    /\ Len(s) >= Len(suf)
    /\ SubSeq(s, Len(s) - Len(suf) + 1, Len(s)) = suf

(* s.replace(a, b) for one-character a and b *)
Replace(s, a, b) == [i \in DOMAIN s |-> IF s[i] = a THEN b ELSE s[i]]

RECURSIVE LastSlash(_, _)
LastSlash(s, i) ==
    IF i = 0 THEN 0 ELSE IF s[i] = "/" THEN i ELSE LastSlash(s, i - 1)

(* s.rsplit(u'/', 1)[-1] *)
RSplitLast(s) == SubSeq(s, LastSlash(s, Len(s)) + 1, Len(s))

----------------------------------------------------------------------------
(* The graph *)

NoLang == "none"
Lit(v, lang) == [v |-> v, lang |-> lang]
U(v) == [v |-> v, lang |-> "uri"]

(* getattr(o, 'language', None): an identifier has no language attribute *)
language(o) == IF o.lang = "uri" THEN NoLang ELSE o.lang

Triple(s, p, o) == <<s, p, o>>

(* graph.objects(uri, p) *)
objects(g, uri, p) == {t[3] : t \in {x \in g : x[1] = uri /\ x[2] = p}}

(* has_subj: first(graph.triples((uri, None, None))) is not None *)
has_subj(g, uri) == \E t \in g : t[1] = uri

RDF_type == "rdf:type"

(* isa: first(graph.triples((uri, RDF.type, rdf_type))) is not None *)
isa(g, uri, rdf_type) == Triple(uri, RDF_type, rdf_type) \in g

----------------------------------------------------------------------------
(* The throttled fetcher *)

Net == [graph |-> graph, clock |-> clock, LAST_DOWNLOAD |-> LAST_DOWNLOAD,
        nfetch |-> nfetch, ncalls |-> ncalls,
        prevIssue |-> prevIssue, lastIssue |-> lastIssue]

SetNet(s) ==
    /\ graph' = s.graph
    /\ clock' = s.clock
    /\ LAST_DOWNLOAD' = s.LAST_DOWNLOAD
    /\ nfetch' = s.nfetch
    /\ ncalls' = s.ncalls
    /\ prevIssue' = s.prevIssue
    /\ lastIssue' = s.lastIssue

(* time.sleep(elapsed) when elapsed < seconds: the time graph_parse sleeps *)
Sleep(elapsed) == IF elapsed < MinInterval THEN elapsed ELSE 0

(* graph_parse(graph, uri), called when the clock of s reads now *)
graph_parse(s, uri) ==
    LET now     == s.clock
        elapsed == now - s.LAST_DOWNLOAD
        issued  == now + Sleep(elapsed)
    IN  [s EXCEPT !.graph = s.graph \cup web[uri],
                  !.clock = issued,
                  !.LAST_DOWNLOAD = now,
                  !.nfetch = [s.nfetch EXCEPT ![uri] = @ + 1],
                  !.prevIssue = s.lastIssue,
                  !.lastIssue = issued]

(* ensure without its has_subj test *)
ensureAlways(s, uri) ==
    graph_parse([s EXCEPT !.ncalls = [s.ncalls EXCEPT ![uri] = @ + 1]], uri)

(* ensure(graph, uri) *)
ensure(s, uri) ==
    LET c == [s EXCEPT !.ncalls = [s.ncalls EXCEPT ![uri] = @ + 1]]
    IN  IF ~has_subj(s.graph, uri) THEN graph_parse(c, uri) ELSE c

NetInit ==
    /\ graph = {}
    /\ clock = StartClock
    /\ LAST_DOWNLOAD = 0
    /\ nfetch = [u \in DOMAIN web |-> 0]
    /\ ncalls = [u \in DOMAIN web |-> 0]
    /\ prevIssue = 0
    /\ lastIssue = 0

----------------------------------------------------------------------------
(* The remote graphs of the fetcher's and the navigator's harnesses *)

NavURI  == {U(<<"a">>), U(<<"b">>)}
NavPred == {"p", "q"}
NavTriples == {Triple(s, p, o) : s \in NavURI, p \in NavPred, o \in NavURI}
NavWebs ==
    {[u \in NavURI |-> {t \in E : t[1] = u}] :
        E \in {E \in SUBSET NavTriples : Cardinality(E) <= MaxEdges}}
Paths == UNION {[1..n -> NavPred] : n \in 0..MaxPath}

NoCall == [active |-> FALSE, uri |-> U(<<>>), path |-> <<>>, nfetch0 |-> <<>>]

NavIdle  == ops = 0 /\ stack = <<>> /\ out = <<>> /\ dcall = NoCall
FileIdle == fin = <<>> /\ files = <<>>
RunIdle ==
    /\ pc = "idle" /\ exitCode = -1 /\ ent = U(<<>>) /\ data = <<>>
    /\ text = <<>> /\ todo = {} /\ kids = {} /\ reqs = <<>>

----------------------------------------------------------------------------
(* The fetcher's harness: graph_parse calls at any times *)

InitThrottle ==
    /\ web \in {w \in NavWebs : \A u \in NavURI : Cardinality(w[u]) = 1}
    /\ NetInit /\ NavIdle /\ FileIdle /\ RunIdle

(* d ticks after the previous call returned, the run calls graph_parse *)
ThrottledFetch ==
    \E u \in DOMAIN web, d \in 0..MaxGap :
        /\ nfetch[u] < MaxFetches
        /\ SetNet(graph_parse([Net EXCEPT !.clock = clock + d], u))
        /\ UNCHANGED <<web, navVars, fileVars, runVars>>

NextThrottle == ThrottledFetch
SpecThrottle == InitThrottle /\ [][NextThrottle]_vars

Fetches == LET RECURSIVE Sum(_)
               Sum(S) == IF S = {} THEN 0
                         ELSE LET u == CHOOSE x \in S : TRUE
                              IN  nfetch[u] + Sum(S \ {u})
           IN  Sum(DOMAIN nfetch)

(* C1: no two consecutive fetches are issued less than the minimum interval
   apart: the time between the last two graph.parse calls is at least
   seconds. *)
C1_MinInterval == Fetches >= 2 => lastIssue - prevIssue >= MinInterval

----------------------------------------------------------------------------
(* The navigator: ensure and drill.  drill is a generator; a frame of the
   stack is one activation of it: at "enter" it has not run yet, at "loop"
   it is inside its for loop, objs being the objects still to visit. *)

Frame(uri, n) == [uri |-> uri, n |-> n, at |-> "enter", objs |-> {}]

(* drill without its n += 1 *)
NextIndexStuck(n) == n

(* n += 1 *)
NextIndex(n) == n + 1

(* the base case taken one predicate early *)
AtEndEarly(n, predicates) == n + 1 >= Len(predicates)

(* the base case: if n >= len(predicates) *)
AtEnd(n, predicates) == n >= Len(predicates)

InitNav ==
    /\ web \in NavWebs
    /\ NetInit /\ NavIdle /\ FileIdle /\ RunIdle

(* the harness calls ensure(graph, u) *)
EnsureCall ==
    \E u \in DOMAIN web :
        /\ stack = <<>> /\ ops < MaxOps
        /\ SetNet(ensure(Net, u))
        /\ ops' = ops + 1
        /\ dcall' = NoCall /\ out' = <<>>
        /\ UNCHANGED <<web, stack, fileVars, runVars>>

(* the harness calls drill(graph, u, path) and starts to consume it *)
DrillCall ==
    \E u \in DOMAIN web, path \in Paths :
        /\ stack = <<>> /\ ops < MaxOps
        /\ ops' = ops + 1
        /\ dcall' = [active |-> TRUE, uri |-> u, path |-> path, nfetch0 |-> nfetch]
        /\ stack' = <<Frame(u, 0)>>
        /\ out' = <<>>
        /\ UNCHANGED <<web, netVars, fileVars, runVars>>

(* the innermost activation starts: it yields uri and ends, or it ensures
   uri and enters its for loop *)
DrillEnter ==
    /\ stack # <<>> /\ Head(stack).at = "enter"
    /\ LET f == Head(stack)
       IN  IF AtEnd(f.n, dcall.path)
           THEN /\ out' = Append(out, f.uri)
                /\ stack' = Tail(stack)
                /\ UNCHANGED netVars
           ELSE LET s == ensure(Net, f.uri)
                    p == dcall.path[f.n + 1]
                IN  /\ SetNet(s)
                    /\ stack' = <<[f EXCEPT !.at = "loop",
                                            !.n = NextIndex(f.n),
                                            !.objs = objects(s.graph, f.uri, p)]>>
                                \o Tail(stack)
                    /\ out' = out
    /\ UNCHANGED <<web, ops, dcall, fileVars, runVars>>

(* the innermost activation's for loop: it takes the next object and
   recurses on it, or it is exhausted and the activation ends *)
DrillLoop ==
    /\ stack # <<>> /\ Head(stack).at = "loop"
    /\ LET f == Head(stack)
       IN  IF f.objs = {}
           THEN stack' = Tail(stack)
           ELSE \E o \in f.objs :
                    stack' = <<Frame(o, f.n), [f EXCEPT !.objs = @ \ {o}]>>
                             \o Tail(stack)
    /\ UNCHANGED <<web, netVars, ops, out, dcall, fileVars, runVars>>

DrillStep == DrillEnter \/ DrillLoop

NextNav == EnsureCall \/ DrillCall \/ DrillEnter \/ DrillLoop
SpecNav == InitNav /\ [][NextNav]_vars


DrillDone == dcall.active /\ stack = <<>>

Range(f) == {f[i] : i \in DOMAIN f}
WebTriples == UNION {web[u] : u \in DOMAIN web}

(* C2 as stated: for any identifier, two ensure calls trigger exactly one
   fetch. *)
C2_TwoCallsOneFetch == \A u \in DOMAIN web : ncalls[u] >= 2 => nfetch[u] = 1

(* what one step may do to a resolved identifier, and what an ensure call
   (a step that raises ncalls) does *)
C2_EnsureStep ==
    \A u \in DOMAIN web :
        /\ has_subj(graph, u) => nfetch'[u] = nfetch[u]
        /\ ncalls'[u] # ncalls[u] /\ has_subj(graph, u) =>
               graph' = graph /\ nfetch' = nfetch
        /\ ncalls'[u] # ncalls[u] /\ ~has_subj(graph, u) =>
               graph' = graph \cup web[u] /\ nfetch'[u] = nfetch[u] + 1

(* C2 as amended: ensure fetches exactly when the identifier is unresolved
   at the call.  A call on a resolved identifier fetches nothing and leaves
   the graph unchanged, a resolved identifier is never fetched again, and so
   the calls on an identifier trigger exactly one fetch when the document
   fetched has a triple with the identifier as subject. *)
C2_EnsureIdempotent ==
    /\ [](\A u \in DOMAIN web : web[u] # {} /\ ncalls[u] >= 1 => nfetch[u] = 1)
    /\ [][C2_EnsureStep]_vars

(* C2's case: an identifier ensured twice, resolved by the one fetch *)
C2_Witness ==
    \E u \in DOMAIN web : ncalls[u] >= 2 /\ nfetch[u] = 1 /\ has_subj(graph, u)

(* the identifiers reached from the set S by following path *)
RECURSIVE Reach(_, _, _)
Reach(g, S, path) ==
    IF path = <<>> THEN S
    ELSE Reach(g, UNION {objects(g, u, Head(path)) : u \in S}, Tail(path))

(* C8: a finished drill(id, path) has yielded exactly the identifiers
   reached from id by following path in the remote graph, every node whose
   objects were read having been resolved first; drill(id, []) yields id
   alone and fetches nothing; drill(id, [p]) yields the objects of p on id. *)
C8_DrillYields ==
    DrillDone =>
        LET id == dcall.uri
            path == dcall.path
        IN  /\ Range(out) = Reach(WebTriples, {id}, path)
            /\ \A k \in 0..(Len(path) - 1) :
                   \A u \in Reach(WebTriples, {id}, SubSeq(path, 1, k)) :
                       ncalls[u] > 0 /\ web[u] \subseteq graph
            /\ path = <<>> => out = <<id>> /\ nfetch = dcall.nfetch0
            /\ Len(path) = 1 => Range(out) = objects(graph, id, path[1])

(* C8's case: a finished two-predicate drill that fetched a node other than
   the one it started from and yielded twice or more *)
C8_Witness ==
    /\ DrillDone /\ Len(dcall.path) = 2 /\ Len(out) >= 2
    /\ \E u \in DOMAIN web : u # dcall.uri /\ nfetch[u] > dcall.nfetch0[u]

(* the pairs (s, o) joined by a predicate of path in the remote graph *)
PathEdges(path) ==
    {<<t[1], t[3]>> : t \in {x \in WebTriples : x[2] \in Range(path)}}

RECURSIVE Closure(_, _, _)
Closure(E, S, k) ==
    IF k = 0 THEN S
    ELSE Closure(E, S \cup {e[2] : e \in {x \in E : x[1] \in S}}, k - 1)

(* the nodes reached from u in one step or more *)
After(E, u) ==
    Closure(E, {e[2] : e \in {x \in E : x[1] = u}}, Cardinality(DOMAIN web))

(* the node the call starts from lies on a cycle along the path predicates *)
CycleOnPath == dcall.uri \in After(PathEdges(dcall.path), dcall.uri)

(* C10 as stated: on a graph with a cycle along the path predicates the
   drill call does not terminate. *)
C10_CycleNeverEnds == dcall.active /\ CycleOnPath => stack # <<>>

(* the resumptions an activation still needs, at most: one not yet started
   at index n, and one in its for loop with k objects left (Fanout bounds
   the objects of one node and predicate) *)
Fanout == Cardinality(DOMAIN web)
RECURSIVE EnterCost(_, _)
EnterCost(n, len) ==
    IF n >= len THEN 1 ELSE 2 + Fanout * (1 + EnterCost(n + 1, len))
LoopCost(n, k, len) == 1 + k * (1 + EnterCost(n, len))
FrameCost(f, len) ==
    IF f.at = "enter" THEN EnterCost(f.n, len)
    ELSE LoopCost(f.n, Cardinality(f.objs), len)
RECURSIVE StackCost(_, _)
StackCost(st, len) ==
    IF st = <<>> THEN 0
    ELSE FrameCost(Head(st), len) + StackCost(Tail(st), len)

(* C10 as amended: drill performs no cycle detection, and it terminates all
   the same, a cycle or not: each activation consumes one predicate, so the
   recursion is never deeper than the path is long, an unfinished call can
   always be resumed, and every resumption lowers a bound on the
   resumptions that are left. *)
C10_DrillTerminates ==
    /\ [](Len(stack) <= Len(dcall.path) + 1)
    /\ [](\A i \in DOMAIN stack : stack[i].n <= Len(dcall.path))
    /\ [](stack # <<>> => ENABLED DrillStep)
    /\ [][stack # <<>> =>
              StackCost(stack', Len(dcall.path)) < StackCost(stack, Len(dcall.path))]_vars

(* C10's case: a finished drill over two or more predicates whose start lies
   on a cycle, and which came back to it *)
C10_Witness ==
    /\ DrillDone /\ CycleOnPath /\ Len(dcall.path) >= 2
    /\ dcall.uri \in Range(out)

----------------------------------------------------------------------------
(* populate_file *)

IMG  == <<"r", "a", "w", "/">>
JPG  == <<".", "j", "p", "g">>
JPEG == <<".", "j", "p", "e", "g">>
PNG  == <<".", "p", "n", "g">>
GIF  == <<".", "g", "i", "f">>

(* the name loop: the last name with no language or with English wins *)
RECURSIVE PickName(_, _)
PickName(name, os) ==
    IF os = <<>> THEN name
    ELSE LET lang == language(Head(os))
         IN  PickName(IF lang = NoLang \/ lang = "en" THEN Head(os).v ELSE name,
                      Tail(os))

(* (not name.endswith(u'.jpg') or not name.endswith(u'.jpeg')) *)
LacksJpeg(name) == ~EndsWith(name, JPG) \/ ~EndsWith(name, JPEG)

(* one turn of the media-type loop *)
AddExtension(name, o) ==
    IF EndsWith(o.v, JPEG) /\ LacksJpeg(name) THEN name \o JPG
    ELSE IF EndsWith(o.v, PNG) /\ ~EndsWith(name, PNG) THEN name \o PNG
    ELSE name

RECURSIVE MediaLoop(_, _)
MediaLoop(name, os) ==
    IF os = <<>> THEN name ELSE MediaLoop(AddExtension(name, Head(os)), Tail(os))

(* populate_file's (name, raw_uri) for the image node uri, names and medias
   being the node's name and media-type objects in the order graph.objects
   gives them *)
populate_file(uri, names, medias) ==
    LET gid     == RSplitLast(uri.v)
        raw_uri == IMG \o Replace(gid, ".", "/")
    IN  [name |-> MediaLoop(PickName(gid, names), medias), raw_uri |-> raw_uri]

ImageURIs == {U(<<"n", "/", "m", ".", "i">>), U(<<"m", ".", "j", ".", "j", "p", "g">>)}
NameExts  == {<<>>, JPG, JPEG, PNG}
NameLits  == {Lit(<<"a">> \o e, l) : e \in NameExts, l \in {"en", "fr", NoLang}}
MediaObjs == {U(<<"i">> \o e) : e \in {JPEG, PNG, GIF}}
SeqsUpTo(S, n) == UNION {[1..k -> S] : k \in 0..n}

InitFile ==
    /\ web = <<>>
    /\ NetInit /\ NavIdle /\ RunIdle
    /\ files = <<>>
    /\ fin \in [at : {"call"}, n : {0}, uri : ImageURIs,
                names : SeqsUpTo(NameLits, 1), medias : SeqsUpTo(MediaObjs, MaxMedia)]

(* populate_file(graph, n, uri, files): requests.get(raw_uri) answers (its
   status is not looked at) or raises *)
PopulateFile ==
    /\ fin # <<>> /\ fin.at = "call"
    /\ \E resp \in {"ok", "raise"} :
           IF resp = "raise"
           THEN fin' = [fin EXCEPT !.at = "raised"] /\ files' = files
           ELSE /\ fin' = [fin EXCEPT !.at = "done"]
                /\ files' = (fin.n :> populate_file(fin.uri, fin.names, fin.medias))
    /\ UNCHANGED <<web, netVars, navVars, runVars>>

NextFile == PopulateFile
SpecFile == InitFile /\ [][NextFile]_vars

(* the extension the claim gives one media type *)
ClaimedExtension(name, o) ==
    IF EndsWith(o.v, JPEG)
    THEN IF ~(EndsWith(name, JPG) \/ EndsWith(name, JPEG)) THEN name \o JPG ELSE name
    ELSE IF EndsWith(o.v, PNG)
    THEN IF ~EndsWith(name, PNG) THEN name \o PNG ELSE name
    ELSE name

(* C9: for an image node with one declared media type, the attachment name
   is the derived name with .jpg appended exactly when the media type ends
   in .jpeg and the name ends in neither .jpg nor .jpeg, with .png appended
   exactly when the media type ends in .png and the name does not, and the
   derived name unchanged otherwise. *)
C9_Extension ==
    fin # <<>> /\ fin.at = "done" /\ Len(fin.medias) = 1 =>
        files[fin.n].name =
            ClaimedExtension(PickName(RSplitLast(fin.uri.v), fin.names), fin.medias[1])

----------------------------------------------------------------------------
(* The run: main, load_parks, login, populate_exhibit, populate_item.
   A request answers "ok", answers with a non-success status ("fail"), or
   raises; the run is followed without a user interrupt.  The run's own
   work takes no time on the clock: every graph_parse after the first finds
   elapsed = 0 (the fetcher's harness is where the call times vary). *)

NAME     == "fb:type.object.name"
SITES    == "fb:base.usnationalparks.nps_classification.classification"
ATTRIB   == "cc:attributionName"
ARTICLE  == "fb:common.topic.article"
DATE     == "fb:protected_sites.protected_site.date_established"
LICENSE  == "xhtml:license"
GEOLOC   == "fb:location.location.geolocation"
LON      == "fb:location.geocode.longitude"
LAT      == "fb:location.geocode.latitude"
IMAGE    == "fb:common.topic.image"
MEDIA    == "fb:type.content.media_type"
DOCUMENT == U(<<"n", "/", "d", "o", "c">>)

Put(d, k, v) == [x \in DOMAIN d \cup {k} |-> IF x = k THEN v ELSE d[x]]

None     == [some |-> FALSE, v |-> <<>>]
Some(v)  == [some |-> TRUE, v |-> v]

(* the object a for loop over S visits last: graph.objects gives no order *)
Last(S) == CHOOSE o \in S : TRUE

Lower(c) ==
    CASE c = "P" -> "p" [] c = "A" -> "a" [] c = "B" -> "b" [] OTHER -> c
IsWord(c) == c \in {"a", "b", "k", "p", "r", "s", "A", "B", "P", "0", "1", "_"}

(* re.sub(r'\W', '-', o.lower()) *)
Slug(t) == [i \in DOMAIN t |-> IF IsWord(Lower(t[i])) THEN Lower(t[i]) ELSE "-"]

(* populate_exhibit's title, slug and credits *)
ExhibitData(g, uri) ==
    LET en == {o \in objects(g, uri, NAME) : language(o) = "en"}
        cr == objects(g, uri, ATTRIB)
        d1 == IF en = {} THEN <<>>
              ELSE Put(Put(<<>>, <<"title">>, Last(en).v), <<"slug">>, Slug(Last(en).v))
    IN  IF cr = {} THEN d1 ELSE Put(d1, <<"credits">>, Last(cr).v)

TextKey(id) == <<"Elements", id, "text">>
HtmlKey(id) == <<"Elements", id, "html">>

(* populate_field(graph, uri, predicate, params, element_id, language) *)
populate_field(g, uri, predicate, params, element_id, lang) ==
    LET os == {o \in objects(g, uri, predicate) :
                  lang = NoLang \/ language(o) = lang}
    IN  IF os = {} THEN params
        ELSE Put(Put(params, TextKey(element_id), Last(os).v),
                 HtmlKey(element_id), <<"0">>)

(* u'<a href="%s">%s</a>' % (o, o.split(u'/')[-1]) *)
Anchor(o) ==
    <<"<", "a", " ", "h", "r", "e", "f", "=", "\"">> \o o.v \o <<"\"", ">">>
    \o RSplitLast(o.v) \o <<"<", "/", "a", ">">>

RECURSIVE Join(_)
Join(S) ==
    IF S = {} THEN <<>>
    ELSE LET o == Last(S)
         IN  IF S = {o} THEN Anchor(o)
             ELSE Anchor(o) \o <<",", " ">> \o Join(S \ {o})

(* populate_item, lines 310-325: public, title, subject *)
ItemHead(g, uri) ==
    LET p1 == Put(<<>>, <<"public">>, <<"0", "1">>)
        p2 == populate_field(g, uri, NAME, p1, 50, "en")
        p3 == Put(p2, TextKey(49), Join(objects(g, uri, RDF_type)))
    IN  Put(p3, HtmlKey(49), <<"1">>)

(* populate_item, lines 327-346: description, source, date, rights,
   identifier *)
ItemBody(g, uri, params, descr) ==
    LET p1 == IF descr.some
              THEN Put(Put(params, TextKey(41), descr.v), HtmlKey(41), <<"0">>)
              ELSE params
        p2 == populate_field(g, uri, ATTRIB, p1, 48, NoLang)
        p3 == populate_field(g, uri, DATE, p2, 40, NoLang)
        p4 == populate_field(g, uri, LICENSE, p3, 47, NoLang)
    IN  Put(Put(p4, TextKey(43), uri.v), HtmlKey(43), <<"0">>)

CoverKey(k) == <<"Elements", 38, k>>

RECURSIVE PutAll(_, _)
PutAll(d, kvs) ==
    IF kvs = <<>> THEN d ELSE PutAll(Put(d, Head(kvs)[1], Head(kvs)[2]), Tail(kvs))

(* populate_coverage, one geolocation node: (x, y) = GOOGLE(lon, lat) is
   pyproj's projection, kept as the pair of texts it is applied to *)
Coverage(g, o_, title, params) ==
    LET lon == objects(g, o_, LON)
        lat == objects(g, o_, LAT)
        x   == Last(lon).v
        y   == Last(lat).v
        wkt == <<"P", "(">> \o x \o <<" ">> \o y \o <<")">>
    IN  IF lon # {} /\ lat # {}
        THEN PutAll(params,
                 << <<CoverKey("geo"), wkt>>,
                    <<CoverKey("zoom"), <<"1", "0">>>>,
                    <<CoverKey("center_lon"), x>>,
                    <<CoverKey("center_lat"), y>>,
                    <<CoverKey("base_layer"), <<"g", "p", "h", "y">>>>,
                    <<CoverKey("text"), wkt \o <<"/">> \o x \o <<"/">> \o y \o <<"\n">> \o title>>,
                    <<CoverKey("html"), <<"0">>>>,
                    <<CoverKey("mapon"), <<"1">>>> >>)
        ELSE params

(* title = params.get('Elements[50][0][text]', '???') *)
ItemTitle(params) ==
    IF TextKey(50) \in DOMAIN params THEN params[TextKey(50)] ELSE <<"?", "?", "?">>

(* '...%(key)s' % d raises KeyError when d has no such key *)
FormatRaises(d, key) == key \notin DOMAIN d

(* login: requests.post raises, or assert resp.ok fails *)
LoginFailsOnRaise(resp) == resp = "raise"
LoginFails(resp) == resp # "ok"

(* get_topic_article: only a raising requests.get ends it; if resp.ok
   decides whether text is set *)
BlurbAbortsOnFailure(resp) == resp # "ok"
BlurbAborts(resp) == resp = "raise"

(* populate_item's requests.post: its status is logged, not tested *)
ItemAbortsOnFailure(resp) == resp # "ok"
ItemAborts(resp) == resp = "raise"

Resps == {"ok", "fail", "raise"}

Req(kind, e, resp, fields) == [kind |-> kind, ent |-> e, resp |-> resp, fields |-> fields]

(* main's except: logging.exception('ERROR'); return 1 *)
Abort ==
    /\ pc' = "done"
    /\ exitCode' = 1

(* ensure(graph, uri) inside the run: the fetch, if one is made, answers or
   raises; a raising fetch has gone through the throttle and adds nothing *)
EnsureOutcomes(uri) ==
    LET s == ensure(Net, uri)
    IN  IF s.nfetch = nfetch THEN {[net |-> s, resp |-> "none"]}
        ELSE {[net |-> s, resp |-> "ok"],
              [net |-> [s EXCEPT !.graph = graph], resp |-> "raise"]}

FetchLog(uri, r) ==
    IF r.resp = "none" THEN <<>> ELSE <<Req("fetch", uri, r.resp, <<>>)>>

----------------------------------------------------------------------------
(* The remote graphs of the run *)

Digits == <<"1", "2", "3", "4">>
Root   == U(<<"n", "/", "r">>)
Kid(i) == U(<<"n", "/", "k", Digits[i]>>)
Kids   == {Kid(i) : i \in 1..MaxKids}
Art    == U(<<"n", "/", "m", ".", "a">>)
Geo    == U(<<"n", "/", "m", ".", "g">>)
Img    == U(<<"n", "/", "m", ".", "i">>)
RunURI == {Root, Art, Geo, Img} \cup Kids

En(u) == Triple(u, NAME, Lit(<<"P", " ", "a">>, "en"))
Fr(u) == Triple(u, NAME, Lit(<<"P", " ", "b">>, "fr"))

RootDocs ==
    {names \cup article \cup {Triple(Root, SITES, k) : k \in listed}
           \cup {Triple(Root, ATTRIB, Lit(<<"A">>, NoLang))} :
        names \in {{Fr(Root)}, {En(Root)}, {En(Root), Fr(Root)}},
        article \in SUBSET {Triple(Root, ARTICLE, Art)},
        listed \in SUBSET Kids}

KidFull(k) ==
    {En(k), Triple(k, RDF_type, U(<<"n", "/", "s", "k">>)),
     Triple(k, ARTICLE, Art), Triple(k, ATTRIB, Lit(<<"B">>, NoLang)),
     Triple(k, DATE, Lit(<<"1", "0">>, NoLang)),
     Triple(k, LICENSE, U(<<"n", "/", "b", "a">>)),
     Triple(k, GEOLOC, Geo), Triple(k, IMAGE, Img)}
KidDocs(k) ==
    { {},
      {En(k), Triple(k, RDF_type, U(<<"n", "/", "s", "k">>))},
      {Fr(k), Triple(k, ARTICLE, Art)},
      KidFull(k) }

ArtDocs == { {}, {Triple(Art, RDF_type, DOCUMENT)} }
GeoDocs ==
    { {Triple(Geo, LON, Lit(<<"1">>, NoLang))},
      {Triple(Geo, LON, Lit(<<"1">>, NoLang)), Triple(Geo, LAT, Lit(<<"0">>, NoLang))} }
ImgDocs ==
    { {Triple(Img, NAME, Lit(<<"a">> \o JPG, NoLang)),
       Triple(Img, MEDIA, U(<<"i">> \o JPEG))} }

WebOf(rd, kd, ad, gd, id) ==
    [u \in RunURI |->
        IF u = Root THEN rd ELSE IF u = Art THEN ad ELSE IF u = Geo THEN gd
        ELSE IF u = Img THEN id ELSE kd[u]]

(* the document of a child the root does not list is never fetched: it is
   left empty *)
KidChoices(rd) ==
    {kd \in [Kids -> UNION {KidDocs(k) : k \in Kids}] :
        \A k \in Kids :
            kd[k] \in (IF Triple(Root, SITES, k) \in rd THEN KidDocs(k) ELSE {{}})}

RunWebs ==
    UNION {{WebOf(rd, kd, ad, gd, id) :
               kd \in KidChoices(rd), ad \in ArtDocs, gd \in GeoDocs, id \in ImgDocs} :
           rd \in RootDocs}

Init ==
    /\ web \in RunWebs
    /\ NetInit /\ NavIdle /\ FileIdle
    /\ pc = "start" /\ exitCode = -1 /\ ent = Root /\ data = <<>>
    /\ text = None /\ todo = {} /\ kids = {} /\ reqs = <<>>

(* load_parks: graph_parse(g, uri) *)
LoadParks ==
    /\ pc = "start"
    /\ \E resp \in {"ok", "raise"} :
           LET s == graph_parse(Net, Root)
           IN  /\ reqs' = Append(reqs, Req("fetch", Root, resp, <<>>))
               /\ IF resp = "raise"
                  THEN SetNet([s EXCEPT !.graph = graph]) /\ Abort
                  ELSE SetNet(s) /\ pc' = "login" /\ exitCode' = exitCode
    /\ UNCHANGED <<web, navVars, fileVars, ent, data, text, todo, kids>>

(* login(omeka_url, user, passwd) *)
Login ==
    /\ pc = "login"
    /\ \E resp \in Resps :
           /\ reqs' = Append(reqs, Req("login", Root, resp, <<>>))
           /\ IF LoginFails(resp) THEN Abort
              ELSE pc' = "exhibit" /\ exitCode' = exitCode
    /\ UNCHANGED <<web, netVars, navVars, fileVars, ent, data, text, todo, kids>>

(* populate_exhibit, lines 256-270: title, slug, credits; get_topic_article
   is entered *)
PopulateExhibit ==
    /\ pc = "exhibit"
    /\ ent' = Root
    /\ data' = ExhibitData(graph, Root)
    /\ text' = None
    /\ todo' = objects(graph, Root, ARTICLE)
    /\ pc' = "exhibit_article"
    /\ UNCHANGED <<web, netVars, navVars, fileVars, exitCode, kids, reqs>>

(* the text the description service gives for the article o *)
Blurb(o) == <<"b", "l", "u", "r", "b", "/">> \o Replace(RSplitLast(o.v), ".", "/")

(* get_topic_article, one turn of its for loop *)
TopicArticle ==
    /\ pc \in {"exhibit_article", "item_article"} /\ todo # {}
    /\ \E o \in todo : \E r \in EnsureOutcomes(o) :
           /\ SetNet(r.net)
           /\ todo' = todo \ {o}
           /\ IF r.resp = "raise"
              THEN /\ reqs' = reqs \o FetchLog(o, r)
                   /\ Abort /\ text' = text
              ELSE IF ~isa(r.net.graph, o, DOCUMENT)
              THEN /\ reqs' = reqs \o FetchLog(o, r)
                   /\ UNCHANGED <<pc, exitCode, text>>
              ELSE \E resp \in Resps :
                       /\ reqs' = reqs \o FetchLog(o, r)
                                       \o <<Req("blurb", ent, resp, <<>>)>>
                       /\ IF BlurbAborts(resp) THEN Abort /\ text' = text
                          ELSE /\ UNCHANGED <<pc, exitCode>>
                               /\ text' = IF resp = "ok" THEN Some(Blurb(o)) ELSE text
    /\ UNCHANGED <<web, navVars, fileVars, ent, data, kids>>

(* populate_exhibit, lines 271-281: description, the exhibit's POST, the
   log lines, and get_listed_sites is entered *)
ExhibitSubmit ==
    /\ pc = "exhibit_article" /\ todo = {}
    /\ LET d == IF text.some THEN Put(data, <<"description">>, text.v) ELSE data
       IN  /\ data' = d
           /\ \E resp \in Resps :
                  /\ reqs' = Append(reqs, Req("exhibit", Root, resp, d))
                  /\ IF resp = "raise" \/ FormatRaises(d, <<"title">>)
                     THEN Abort /\ kids' = kids
                     ELSE /\ pc' = "listed" /\ exitCode' = exitCode
                          /\ kids' = objects(graph, Root, SITES)
    /\ UNCHANGED <<web, netVars, navVars, fileVars, ent, text, todo>>

(* get_listed_sites yields the next child, ensured; populate_item, lines
   310-328: public, title, subject; get_topic_article is entered *)
NextChild ==
    /\ pc = "listed" /\ kids # {}
    /\ \E child \in kids : \E r \in EnsureOutcomes(child) :
           /\ SetNet(r.net)
           /\ reqs' = reqs \o FetchLog(child, r)
           /\ kids' = kids \ {child}
           /\ IF r.resp = "raise"
              THEN Abort /\ UNCHANGED <<ent, data, text, todo>>
              ELSE /\ ent' = child
                   /\ data' = ItemHead(r.net.graph, child)
                   /\ text' = None
                   /\ todo' = objects(r.net.graph, child, ARTICLE)
                   /\ pc' = "item_article" /\ exitCode' = exitCode
    /\ UNCHANGED <<web, navVars, fileVars>>

(* get_listed_sites is exhausted: populate_exhibit and load_parks return,
   main returns 0 *)
ListedEnd ==
    /\ pc = "listed" /\ kids = {}
    /\ pc' = "done"
    /\ exitCode' = 0
    /\ UNCHANGED <<web, netVars, navVars, fileVars, ent, data, text, todo, kids, reqs>>

(* populate_item, lines 329-349 and 404: description, source, date, rights,
   identifier; populate_coverage is entered *)
ItemFields ==
    /\ pc = "item_article" /\ todo = {}
    /\ data' = ItemBody(graph, ent, data, text)
    /\ todo' = objects(graph, ent, GEOLOC)
    /\ pc' = "item_coverage"
    /\ UNCHANGED <<web, netVars, navVars, fileVars, exitCode, ent, text, kids, reqs>>

(* populate_coverage, one turn of its for loop *)
PopulateCoverage ==
    /\ pc = "item_coverage" /\ todo # {}
    /\ \E o_ \in todo : \E r \in EnsureOutcomes(o_) :
           /\ SetNet(r.net)
           /\ reqs' = reqs \o FetchLog(o_, r)
           /\ todo' = todo \ {o_}
           /\ IF r.resp = "raise" THEN Abort /\ data' = data
              ELSE /\ data' = Coverage(r.net.graph, o_, ItemTitle(data), data)
                   /\ UNCHANGED <<pc, exitCode>>
    /\ UNCHANGED <<web, navVars, fileVars, ent, text, kids>>

(* populate_item, lines 351-353: files = {} and the image loop is entered *)
ItemImages ==
    /\ pc = "item_coverage" /\ todo = {}
    /\ files' = <<>>
    /\ todo' = objects(graph, ent, IMAGE)
    /\ pc' = "item_images"
    /\ UNCHANGED <<web, netVars, navVars, fin, exitCode, ent, data, text, kids, reqs>>

(* the objects of p on uri, in the order graph.objects gives them *)
RECURSIVE Listing(_)
Listing(S) == IF S = {} THEN <<>> ELSE LET o == Last(S) IN <<o>> \o Listing(S \ {o})

(* populate_item, one turn of the image loop: ensure, populate_file *)
PopulateImage ==
    /\ pc = "item_images" /\ todo # {}
    /\ \E img_uri \in todo : \E r \in EnsureOutcomes(img_uri) :
           /\ SetNet(r.net)
           /\ todo' = todo \ {img_uri}
           /\ IF r.resp = "raise"
              THEN /\ reqs' = reqs \o FetchLog(img_uri, r)
                   /\ Abort /\ files' = files
              ELSE \E resp \in {"ok", "raise"} :
                       LET g == r.net.graph
                           n == Cardinality(DOMAIN files)
                           f == populate_file(img_uri,
                                              Listing(objects(g, img_uri, NAME)),
                                              Listing(objects(g, img_uri, MEDIA)))
                       IN  /\ reqs' = reqs \o FetchLog(img_uri, r)
                                           \o <<Req("image", ent, resp, <<>>)>>
                           /\ IF resp = "raise" THEN Abort /\ files' = files
                              ELSE /\ files' = Put(files, n, f)
                                   /\ UNCHANGED <<pc, exitCode>>
    /\ UNCHANGED <<web, navVars, fin, ent, data, text, kids>>

(* populate_item, lines 357-369: the log line, the item's POST, the log
   lines; get_listed_sites is resumed *)
ItemSubmit ==
    /\ pc = "item_images" /\ todo = {}
    /\ IF FormatRaises(data, TextKey(50))
       THEN Abort /\ reqs' = reqs
       ELSE \E resp \in Resps :
                /\ reqs' = Append(reqs, Req("item", ent, resp, data))
                /\ IF ItemAborts(resp) THEN Abort
                   ELSE pc' = "listed" /\ exitCode' = exitCode
    /\ UNCHANGED <<web, netVars, navVars, fileVars, ent, data, text, todo, kids>>

Next ==
    \/ LoadParks \/ Login \/ PopulateExhibit \/ TopicArticle \/ ExhibitSubmit
    \/ NextChild \/ ListedEnd \/ ItemFields \/ PopulateCoverage \/ ItemImages
    \/ PopulateImage \/ ItemSubmit
Spec == Init /\ [][Next]_vars

----------------------------------------------------------------------------
(* The claims about the run *)

Idx(kind)  == {i \in DOMAIN reqs : reqs[i].kind = kind}
ItemsOf(k) == {i \in Idx("item") : reqs[i].ent = k}
LoginOK    == \E i \in Idx("login") : reqs[i].resp = "ok"
NoRaise    == \A i \in DOMAIN reqs : reqs[i].resp # "raise"
Listed     == objects(web[Root], Root, SITES)
EnglishName(u) == \E o \in objects(web[u], u, NAME) : language(o) = "en"
AllTitled  == \A e \in {Root} \cup Listed : EnglishName(e)
AllSubmitted ==
    /\ Cardinality(Idx("exhibit")) = 1
    /\ \A k \in Listed : Cardinality(ItemsOf(k)) = 1
    /\ \A i \in Idx("item") : reqs[i].ent \in Listed

(* C3: in a run in which login succeeds and no request raises, the run ends
   with exit code 0 after exactly one login and one exhibit submission, the
   exhibit submission before every item submission, and exactly one item
   submission for each child listed on the root, the child fetched before. *)
C3_Pipeline ==
    pc = "done" /\ LoginOK /\ NoRaise =>
        /\ exitCode = 0
        /\ Cardinality(Idx("login")) = 1
        /\ AllSubmitted
        /\ \A e \in Idx("exhibit"), i \in Idx("item") : e < i
        /\ \A k \in Listed : \A i \in ItemsOf(k) :
               \E f \in Idx("fetch") : reqs[f].ent = k /\ f < i

(* C5: when the root or a listed child has no English name, the run (login
   succeeding, no request raising) still ends with exit code 0, the entity
   submitted without its title field and every child submitted. *)
C5_MissingTitle ==
    pc = "done" /\ LoginOK /\ NoRaise /\ ~AllTitled =>
        /\ exitCode = 0
        /\ \E e \in Idx("exhibit") :
               EnglishName(Root) \/ <<"title">> \notin DOMAIN reqs[e].fields
        /\ \A k \in Listed : \E i \in ItemsOf(k) :
               EnglishName(k) \/ TextKey(50) \notin DOMAIN reqs[i].fields

(* C4 as stated: when an item submission fails, by a non-success response
   or by raising, every child listed on the root is still submitted (here
   in the runs where nothing else fails and every node has its title). *)
C4_FailureIsolated ==
    /\ pc = "done" /\ LoginOK /\ AllTitled
    /\ \A i \in DOMAIN reqs : reqs[i].resp = "raise" => reqs[i].kind = "item"
    /\ \E i \in Idx("item") : reqs[i].resp # "ok"
    => AllSubmitted

IsPrefix(a, b) == Len(a) <= Len(b) /\ SubSeq(b, 1, Len(a)) = a
ItemPosted == Len(reqs') = Len(reqs) + 1 /\ reqs'[Len(reqs')].kind = "item"

(* a step takes nothing back, and the step that posts an item goes on or
   ends the run *)
C4_ItemStep ==
    /\ IsPrefix(reqs, reqs')
    /\ ItemPosted =>
           IF reqs'[Len(reqs')].resp = "raise"
           THEN pc' = "done" /\ exitCode' = 1
           ELSE pc' = "listed" /\ exitCode' = exitCode /\ kids' = kids

(* C4 as amended: a non-success response to an item submission is not
   looked at: get_listed_sites is resumed with the same children left as
   after a success, and the run goes on.  A submission request that raises
   is not caught per item: the run ends there with exit code 1, the
   remaining children unprocessed.  Either way nothing sent is taken back,
   and a run that ends with exit code 0 has submitted every listed child
   once, whatever the responses were. *)
C4_ItemFailure ==
    /\ [][C4_ItemStep]_vars
    /\ [](pc = "done" /\ exitCode = 0 => AllSubmitted)
    /\ [](pc = "done" /\ (\E i \in Idx("item") : reqs[i].resp = "raise")
             => exitCode = 1 /\ reqs[Len(reqs)].kind = "item"
                /\ reqs[Len(reqs)].resp = "raise")

(* C4's case: a finished run of two children or more in which an item
   submission that was not the last request got a non-success response *)
C4_Witness ==
    /\ pc = "done" /\ exitCode = 0 /\ Cardinality(Listed) >= 2
    /\ \E i \in Idx("item") : reqs[i].resp = "fail" /\ i < Len(reqs)

DescKey(kind) == IF kind = "exhibit" THEN <<"description">> ELSE TextKey(41)
BlurbsBefore(i) == {b \in Idx("blurb") : b < i /\ reqs[b].ent = reqs[i].ent}
BlurbAnswered == Len(reqs') = Len(reqs) + 1 /\ reqs'[Len(reqs')].kind = "blurb"

(* the step that gets a non-success answer from the description service *)
C6_BlurbStep ==
    BlurbAnswered /\ reqs'[Len(reqs')].resp = "fail" =>
        pc' = pc /\ exitCode' = exitCode /\ text' = text /\ data' = data

(* C6: a non-success answer of the description service never raises: the
   step that gets it leaves the run going and text as it was; an exhibit or
   item whose snippet requests were all answered so is submitted without a
   description field; and the run, when nothing else fails (login succeeds,
   no request raises, every node has its title), ends with exit code 0 and
   every entity submitted. *)
C6_DescriptionFailure ==
    /\ [][C6_BlurbStep]_vars
    /\ [](\A i \in Idx("exhibit") \cup Idx("item") :
             /\ BlurbsBefore(i) # {}
             /\ \A b \in BlurbsBefore(i) : reqs[b].resp = "fail"
             => DescKey(reqs[i].kind) \notin DOMAIN reqs[i].fields)
    /\ [](/\ pc = "done" /\ LoginOK /\ NoRaise /\ AllTitled
          /\ \E b \in Idx("blurb") : reqs[b].resp = "fail"
          => exitCode = 0 /\ AllSubmitted)

(* C6's case: a run that ended with exit code 0 after the snippet requests
   of the exhibit and of an item were answered with a non-success status *)
C6_Witness ==
    /\ pc = "done" /\ exitCode = 0
    /\ \E e \in Idx("exhibit") :
           /\ BlurbsBefore(e) # {}
           /\ <<"description">> \notin DOMAIN reqs[e].fields
    /\ \E i \in Idx("item") :
           /\ \E b \in BlurbsBefore(i) : reqs[b].resp = "fail"
           /\ TextKey(41) \notin DOMAIN reqs[i].fields

(* C7: a non-success login response is fatal: the run is over with a
   non-zero exit code, login was issued once, and no exhibit and no item
   was ever submitted. *)
C7_LoginFatal ==
    (\E i \in Idx("login") : reqs[i].resp = "fail") =>
        /\ pc = "done" /\ exitCode > 0
        /\ Cardinality(Idx("login")) = 1
        /\ Idx("exhibit") = {} /\ Idx("item") = {}

(* C7's case: login was answered with a non-success status *)
C7_Witness ==
    /\ pc = "done"
    /\ \E i \in Idx("login") : reqs[i].resp = "fail"

====
